---- MODULE Spec2Model ----
(***************************************************************************)
(* State-machine model of demo/file_server.cpp: the acceptor coroutine,    *)
(* the per-connection handler coroutine, the request parser (serve), the   *)
(* file responder and the windowed streaming loop (http_send_file).        *)
(*                                                                         *)
(* One action is one completion event delivered by the event loop of main  *)
(* (wait_event + promise->resolve), together with everything the resumed   *)
(* coroutine does until its next suspension point.                         *)
(*                                                                         *)
(* File and buffer contents are kept as runs [k, f, o, n, t]: n bytes of   *)
(* file f starting at file offset o (k = "data"), n indeterminate bytes    *)
(* (k = "uninit"), or a response header (k = "hdr", o = status code,       *)
(* n = Content-Length, t = content type).                                  *)
(***************************************************************************)
EXTENDS Integers, Sequences, FiniteSets

\* ------------------------------------------------------------------ bounds
MaxConns == 2       \* connections the acceptor accepts in one run
MaxWindows == 2     \* the largest file fills MaxWindows windows

\* --------------------------------------------------------------- constants
BUF_SIZE == 1024
\* std::string_view::npos, size_t(-1): larger than every length in the model
npos == 2147483647

Conns == 1..MaxConns

\* ------------------------------------------------------------- characters
GET == <<"G", "E", "T">>
PathRoot == <<"/">>
PathIndex == <<"/", "i", "n", "d", "e", "x", ".", "h", "t", "m", "l">>
PathA == <<"/", "a", ".", "t", "x", "t">>
PathDir == <<"/", "d">>
PathMissing == <<"/", "x">>

\* The byte strings one recvmsg can deliver (res >= 0 bytes of the buffer).
ReqRoot == GET \o <<" ">> \o PathRoot \o <<" ">>
ReqIndex == GET \o <<" ">> \o PathIndex \o <<" ">>
ReqA == GET \o <<" ">> \o PathA \o <<" ">>
ReqDir == GET \o <<" ">> \o PathDir \o <<" ">>
\* ... a request line that ends right after the path, with no space
ReqNoSpace == GET \o <<" ">> \o PathMissing
ReqOnlyGET == GET
ReqGETX == GET \o <<"X", " ">> \o PathA \o <<" ">>
ReqPost == <<"P", "O", "S", "T", " ">> \o PathA \o <<" ">>
ReqEmpty == << >>

Requests ==
  { ReqRoot, ReqIndex, ReqA, ReqDir, ReqNoSpace, ReqOnlyGET,
    ReqGETX, ReqPost, ReqEmpty }

\* ------------------------------------------------------------- filesystem
IndexName == <<".">> \o PathIndex
AName == <<".">> \o PathA

\* What openat(dirfd, name, O_RDONLY) + fstat find beneath the root:
\* "reg" regular file, "dir" directory (opens, but is not S_ISREG),
\* "none" open fails.
FileKind(name) ==
  IF name \in {IndexName, AName} THEN "reg"
  ELSE IF name \in {<<".">>, <<".", "/">>, <<".">> \o PathDir} THEN "dir"
  ELSE "none"

\* The sizes ./index.html may have: empty, less than a window, one window
\* and a remainder, and a whole number of windows.
Sizes == {0, 1, BUF_SIZE + 1, MaxWindows * BUF_SIZE}

VARIABLES
  indexSize,         \* st_size of ./index.html (fixed during a run)
  accpc,             \* accept_connection: "accepting", or "done" (work.done())
  runningCoroutines, \* the global counter
  h,                 \* h[c]: the handler coroutine of connection c
  filebuf            \* filebuf[c]: the window buffer of c's http_send_file

vars == <<indexSize, accpc, runningCoroutines, h, filebuf>>

\* ------------------------------------------------- std::string_view helpers
\* Positions are 0-based as in C++; TLA+ sequences are 1-based.
Min(a, b) == IF a < b THEN a ELSE b

\* s.find(ch, pos): first position >= pos holding ch, else npos.
Find(s, ch, pos) ==
  LET hits == { i \in pos..(Len(s) - 1) : s[i + 1] = ch }
  IN IF hits = {} THEN npos ELSE CHOOSE i \in hits : \A j \in hits : i <= j

\* s.find_last_of(ch): last position holding ch, else npos.
FindLastOf(s, ch) ==
  LET hits == { i \in 0..(Len(s) - 1) : s[i + 1] = ch }
  IN IF hits = {} THEN npos ELSE CHOOSE i \in hits : \A j \in hits : i >= j

\* s.substr(pos, n) for pos <= size(): the characters [pos, pos + min(n, size - pos)).
Substr(s, pos, n) == SubSeq(s, pos + 1, pos + Min(n, Len(s) - pos))

\* s.substr(pos, n) throws std::out_of_range exactly when pos > size().
SubstrThrows(s, pos) == pos > Len(s)

\* ------------------------------------------------------------ the parser
\* buf_view.compare(0, 3, "GET") == 0: the first min(3, size) characters,
\* compared with "GET" as a whole.
IsGETUpToSize(buf) == Substr(buf, 0, 3) = Substr(GET, 0, Len(buf))
IsGET(buf) == Substr(buf, 0, 3) = GET

\* "."s += buf_view.substr(4, buf_view.find(' ', 4) - 4)
RequestFile(buf) == <<".">> \o Substr(buf, 4, Find(buf, " ", 4) - 4)

\* --------------------------------------------------------- the responder
\* if (filename == "./") filename = "./index.html";
NormalizeNone(filename) == filename
Normalize(filename) == IF filename = <<".", "/">> THEN IndexName ELSE filename

\* openat(dirfd, filename, O_RDONLY): "bad" is a negative descriptor.
OpenAt(filename) == IF FileKind(filename) = "none" THEN "bad" ELSE "open"

\* fstat(infd, &st).st_size of a regular file.
StatSize(filename) == IF filename = IndexName THEN indexSize ELSE BUF_SIZE - 1

\* infd < 0 || fstat(infd, &st) || !S_ISREG(st.st_mode)
NotFoundOpenOnly(filename) == OpenAt(filename) = "bad"
NotFound(filename) == OpenAt(filename) = "bad" \/ FileKind(filename) # "reg"

\* The extension table of mime_dicts.hpp.
MimeDicts(ext) ==
  IF ext = <<"h", "t", "m", "l">> THEN "text/html"
  ELSE IF ext = <<"t", "x", "t">> THEN "text/plain"
  ELSE "none"

\* The contentType lambda: the text after the last '.', looked up in
\* MimeDicts, "application/octet-stream" when absent. find_last_of + 1 wraps
\* to 0 when there is no '.'.
ContentType(filename) ==
  LET dot == FindLastOf(filename, ".")
      from == IF dot = npos THEN 0 ELSE dot + 1
      ext == Substr(filename, from, npos)
  IN IF MimeDicts(ext) = "none" THEN "application/octet-stream" ELSE MimeDicts(ext)

\* ------------------------------------------------------------------- runs
Run(k, f, o, n, t) == [k |-> k, f |-> f, o |-> o, n |-> n, t |-> t]

http_404_hdr == Run("hdr", << >>, 404, 0, "")
http_400_hdr == Run("hdr", << >>, 400, 0, "")
\* fmt::format("HTTP/1.1 200 OK\r\nContent-type: {}\r\nContent-Length: {}\r\n\r\n", ...)
Http200Hdr(contentType, size) == Run("hdr", << >>, 200, size, contentType)

FileRun(f, o, n) == Run("data", f, o, n, "")
\* std::array<char, BUF_SIZE> filebuf;  (not initialised)
FreshBuf == << Run("uninit", << >>, 0, BUF_SIZE, "") >>

RunSuffix(r, k) ==
  Run(r.k, r.f, IF r.k = "data" THEN r.o + k ELSE r.o, r.n - k, r.t)
RunPrefix(r, k) == Run(r.k, r.f, r.o, k, r.t)

RECURSIVE DropBytes(_, _)
\* The runs left after the first k bytes.
DropBytes(runs, k) ==
  IF k = 0 \/ runs = << >> THEN runs
  ELSE IF runs[1].n <= k THEN DropBytes(Tail(runs), k - runs[1].n)
  ELSE << RunSuffix(runs[1], k) >> \o Tail(runs)

RECURSIVE TakeBytes(_, _)
\* The first k bytes.
TakeBytes(runs, k) ==
  IF k = 0 \/ runs = << >> THEN << >>
  ELSE IF runs[1].n <= k THEN << runs[1] >> \o TakeBytes(Tail(runs), k - runs[1].n)
  ELSE << RunPrefix(runs[1], k) >>

\* The byte stream s followed by one run; bytes that continue the last run
\* of the same file are the same run (the stream has no message boundaries).
PutRun(s, r) ==
  IF r.k # "hdr" /\ r.n = 0 THEN s
  ELSE IF s # << >> /\ r.k = "data" /\ s[Len(s)].k = "data"
          /\ s[Len(s)].f = r.f /\ s[Len(s)].o + s[Len(s)].n = r.o
    THEN [s EXCEPT ![Len(s)].n = @ + r.n]
  ELSE Append(s, r)

RECURSIVE PutRuns(_, _)
PutRuns(s, rs) == IF rs = << >> THEN s ELSE PutRuns(PutRun(s, rs[1]), Tail(rs))

\* A read of n bytes at file offset o into the start of the buffer.
ReadInto(buf, f, o, n) ==
  IF n = 0 THEN buf ELSE << FileRun(f, o, n) >> \o DropBytes(buf, n)

\* ------------------------------------------------------ the I/O service
\* An awaited operation that completed with an error raises in the awaiting
\* coroutine.
Raises(ok) == ~ok

\* The link tag: an operation submitted with it is held back until the
\* operation submitted just before it has completed.
Linked(iflags) == "IOSQE_IO_LINK" \in iflags

\* when_all resumes its caller once every member has completed.
AllComplete(readst, sendst) ==
  readst \in {"ok", "fail"} /\ sendst \in {"ok", "fail", "cancelled"}

\* ... and raises when a member failed.
AnyFailed(readst, sendst) == readst # "ok" \/ sendst # "ok"

\* --------------------------------------------------- the handler coroutine
FreshHandler ==
  [ pc |-> "free",       \* where the coroutine is suspended
    sock |-> "none",     \* clientfd: "none", "open", "closed"
    closes |-> 0,        \* close(clientfd) calls
    got |-> FALSE,       \* recvmsg returned bytes
    req |-> << >>,       \* buf_view
    filename |-> << >>,
    infd |-> "none",     \* "none", "bad" (< 0), "open", "closed"
    fdcloses |-> 0,      \* runs of the closefd scope guard
    st_size |-> 0,
    offset |-> 0,
    iov_len |-> BUF_SIZE,
    readst |-> "none",   \* the readv of the current pair
    sendst |-> "none",   \* the sendmsg of the current pair
    windows |-> << >>,   \* every pair issued: <<file offset, length>>
    sent |-> << >>,      \* the bytes the client has received
    thrown |-> "none" ]  \* the exception serve ended with

\* catch (std::exception& e): std::system_error and std::out_of_range both
\* derive from std::exception.
CaughtOnlySystemError(exc) == exc = "system_error"
Caught(exc) == exc \in {"system_error", "out_of_range"}

\* The lambda after serve returned (exc = "none") or threw: the catch block,
\* close(clientfd), the log line; Resume then decrements the counter. An
\* exception the catch clause does not match leaves the lambda at once.
HandlerExitLeakOnThrow(r, exc) ==
  IF exc = "none"
    THEN [r EXCEPT !.pc = "exited", !.sock = "closed", !.closes = @ + 1]
    ELSE [r EXCEPT !.pc = "exited", !.thrown = exc]
HandlerExit(r, exc) ==
  IF exc # "none" /\ ~Caught(exc)
    THEN [r EXCEPT !.pc = "escaped", !.thrown = exc]
    ELSE [r EXCEPT !.pc = "exited", !.sock = "closed", !.closes = @ + 1, !.thrown = exc]

\* on_scope_exit closefd: close(infd) when http_send_file is left.
ScopeExitLeak(r) == r
ScopeExit(r) ==
  [r EXCEPT !.infd = IF @ = "open" THEN "closed" ELSE @, !.fdcloses = @ + 1]

\* The flags of the two body sendmsg calls.
BodySendNoLink == {"MSG_NOSIGNAL"}
BodySendFlags == {"MSG_NOSIGNAL", "IOSQE_IO_LINK"}

\* for (; st.st_size - offset > BUF_SIZE; ...)
MoreWindows(size, offset) == size - offset > BUF_SIZE

\* if (st.st_size > offset)
HasRemainderOrEmpty(size, offset) == size >= offset
HasRemainder(size, offset) == size > offset

\* The file offset handed to readv.
ReadOffsetZero(r) == 0
ReadOffset(r) == r.offset

\* co_await when_all(std::array { readv(...), sendmsg(..., IOSQE_IO_LINK) })
IssuePair(r, len, pc) ==
  [r EXCEPT !.pc = pc, !.iov_len = len,
            !.readst = "inflight",
            !.sendst = IF Linked(BodySendFlags) THEN "held" ELSE "inflight",
            !.windows = Append(@, <<ReadOffset(r), len>>)]

\* The loop head and what follows the loop, entered with r.offset set.
StreamLoopNoAwaitLast(r) ==
  IF MoreWindows(r.st_size, r.offset) THEN IssuePair(r, BUF_SIZE, "pair")
  ELSE IF HasRemainder(r.st_size, r.offset)
    THEN HandlerExit(ScopeExit(IssuePair(r, r.st_size - r.offset, "lastpair")), "none")
  ELSE HandlerExit(ScopeExit(r), "none")
StreamLoop(r) ==
  IF MoreWindows(r.st_size, r.offset) THEN IssuePair(r, BUF_SIZE, "pair")
  ELSE IF HasRemainder(r.st_size, r.offset)
    THEN IssuePair(r, r.st_size - r.offset, "lastpair")
  ELSE HandlerExit(ScopeExit(r), "none")

\* http_send_file up to its first suspension.
HttpSendFileNoAwait(r, file) ==
  LET fn == Normalize(file)
      opened == [r EXCEPT !.filename = fn, !.infd = OpenAt(fn)]
  IN IF NotFound(fn) THEN [opened EXCEPT !.pc = "send404"]
     ELSE StreamLoop([opened EXCEPT !.st_size = StatSize(fn), !.offset = 0])
HttpSendFile(r, file) ==
  LET fn == Normalize(file)
      opened == [r EXCEPT !.filename = fn, !.infd = OpenAt(fn)]
  IN IF NotFound(fn) THEN [opened EXCEPT !.pc = "send404"]
     ELSE [opened EXCEPT !.pc = "sendhdr", !.st_size = StatSize(fn)]

\* serve after recvmsg returned buf.
Serve(r, buf) ==
  LET got == [r EXCEPT !.got = TRUE, !.req = buf]
  IN IF IsGET(buf)
       THEN IF SubstrThrows(buf, 4) THEN HandlerExit(got, "out_of_range")
            ELSE HttpSendFile(got, RequestFile(buf))
       ELSE [got EXCEPT !.pc = "send400"]

\* The continuation of when_all once a member completed.
AfterPairReadOnly(r) ==
  IF r.readst \notin {"ok", "fail"} THEN r
  ELSE IF r.readst = "fail" THEN HandlerExit(ScopeExit(r), "system_error")
  ELSE IF r.pc = "pair" THEN [r EXCEPT !.pc = "delay"]
  ELSE HandlerExit(ScopeExit(r), "none")
AfterPairIgnoreFailure(r) ==
  IF ~AllComplete(r.readst, r.sendst) THEN r
  ELSE IF r.pc = "pair" THEN [r EXCEPT !.pc = "delay"]
  ELSE HandlerExit(ScopeExit(r), "none")
AfterPair(r) ==
  IF ~AllComplete(r.readst, r.sendst) THEN r
  ELSE IF AnyFailed(r.readst, r.sendst) THEN HandlerExit(ScopeExit(r), "system_error")
  ELSE IF r.pc = "pair" THEN [r EXCEPT !.pc = "delay"]
  ELSE HandlerExit(ScopeExit(r), "none")

\* The buffer a connection's transfer reads into and sends from.
BufOfShared(c) == 1
BufOf(c) == c

\* ------------------------------------------------------------------ state
Init ==
  /\ indexSize \in Sizes
  /\ accpc = "accepting"
  /\ runningCoroutines = 0
  /\ h = [c \in Conns |-> FreshHandler]
  /\ filebuf = [c \in Conns |-> FreshBuf]

\* The event loop of main runs while the acceptor coroutine is not done.
Running == accpc = "accepting"

\* Coroutine c is resumed and runs to its next suspension or to its end.
ResumeNoDecrementOnThrow(c, new) ==
  /\ h' = [h EXCEPT ![c] = new]
  /\ runningCoroutines' =
       IF new.pc = "exited" /\ new.thrown = "none"
         THEN runningCoroutines - 1 ELSE runningCoroutines
Resume(c, new) ==
  /\ h' = [h EXCEPT ![c] = new]
  /\ runningCoroutines' =
       IF new.pc = "exited" THEN runningCoroutines - 1 ELSE runningCoroutines

\* accept returned a descriptor > 0: the handler starts (counter, serve up
\* to recvmsg) and the acceptor issues the next accept.
AcceptCompleteAwaitHandler ==
  /\ Running
  /\ \A d \in Conns : h[d].pc \in {"free", "exited"}
  /\ \E c \in Conns :
       /\ h[c].pc = "free"
       /\ \A d \in Conns : d < c => h[d].pc # "free"
       /\ h' = [h EXCEPT ![c] = [@ EXCEPT !.pc = "recv", !.sock = "open"]]
  /\ runningCoroutines' = runningCoroutines + 1
  /\ UNCHANGED <<indexSize, accpc, filebuf>>
AcceptComplete ==
  /\ Running
  /\ \E c \in Conns :
       /\ h[c].pc = "free"
       /\ \A d \in Conns : d < c => h[d].pc # "free"
       /\ h' = [h EXCEPT ![c] = [@ EXCEPT !.pc = "recv", !.sock = "open"]]
  /\ runningCoroutines' = runningCoroutines + 1
  /\ UNCHANGED <<indexSize, accpc, filebuf>>

\* accept returned 0: the while condition is false and the acceptor returns;
\* work.done() holds and the event loop of main ends.
AcceptSentinel ==
  /\ Running
  /\ accpc' = "done"
  /\ UNCHANGED <<indexSize, runningCoroutines, h, filebuf>>

\* accept failed: the error leaves accept_connection, which is done as well
\* (main rethrows it from work.get_result() after the loop).
AcceptError ==
  /\ Running
  /\ accpc' = "done"
  /\ UNCHANGED <<indexSize, runningCoroutines, h, filebuf>>

RecvComplete(c) ==
  /\ Running
  /\ h[c].pc = "recv"
  /\ \/ Resume(c, HandlerExit(h[c], "system_error"))
     \/ \E buf \in Requests : Resume(c, Serve(h[c], buf))
  /\ UNCHANGED <<indexSize, accpc, filebuf>>

Send400Complete(c) ==
  /\ Running
  /\ h[c].pc = "send400"
  /\ \E ok \in BOOLEAN :
       Resume(c, IF Raises(ok) THEN HandlerExit(h[c], "system_error")
                 ELSE HandlerExit([h[c] EXCEPT !.sent = PutRun(@, http_400_hdr)], "none"))
  /\ UNCHANGED <<indexSize, accpc, filebuf>>

Send404Complete(c) ==
  /\ Running
  /\ h[c].pc = "send404"
  /\ \E ok \in BOOLEAN :
       Resume(c, IF Raises(ok) THEN HandlerExit(ScopeExit(h[c]), "system_error")
                 ELSE HandlerExit(ScopeExit([h[c] EXCEPT !.sent = PutRun(@, http_404_hdr)]),
                                  "none"))
  /\ UNCHANGED <<indexSize, accpc, filebuf>>

SendHdrComplete(c) ==
  /\ Running
  /\ h[c].pc = "sendhdr"
  /\ \E ok \in BOOLEAN :
       Resume(c, IF Raises(ok) THEN HandlerExit(ScopeExit(h[c]), "system_error")
                 ELSE StreamLoop([h[c] EXCEPT
                        !.sent = PutRun(@, Http200Hdr(ContentType(h[c].filename),
                                                      h[c].st_size)),
                        !.offset = 0]))
  /\ UNCHANGED <<indexSize, accpc, filebuf>>

\* The readv of the current pair completes; a held sendmsg is released, or
\* cancelled when the readv failed.
ReadComplete(c) ==
  /\ Running
  /\ h[c].pc \in {"pair", "lastpair"}
  /\ h[c].readst = "inflight"
  /\ \E ok \in BOOLEAN :
       /\ Resume(c, AfterPair([h[c] EXCEPT
            !.readst = IF ok THEN "ok" ELSE "fail",
            !.sendst = IF @ = "held" THEN (IF ok THEN "inflight" ELSE "cancelled") ELSE @]))
       /\ filebuf' =
            IF ok THEN [filebuf EXCEPT ![BufOf(c)] =
                          ReadInto(@, h[c].filename, ReadOffset(h[c]), h[c].iov_len)]
            ELSE filebuf
  /\ UNCHANGED <<indexSize, accpc>>

\* The sendmsg of the current pair completes: on success the client has
\* received the first iov_len bytes of the buffer.
BodySendComplete(c) ==
  /\ Running
  /\ h[c].pc \in {"pair", "lastpair"}
  /\ h[c].sendst = "inflight"
  /\ \E ok \in BOOLEAN :
       Resume(c, AfterPair([h[c] EXCEPT
         !.sendst = IF ok THEN "ok" ELSE "fail",
         !.sent = IF ok THEN PutRuns(@, TakeBytes(filebuf[BufOf(c)], h[c].iov_len))
                  ELSE @]))
  /\ UNCHANGED <<indexSize, accpc, filebuf>>

\* co_await service.delay(1) completes: offset += BUF_SIZE, then the loop head.
DelayComplete(c) ==
  /\ Running
  /\ h[c].pc = "delay"
  /\ Resume(c, StreamLoop([h[c] EXCEPT !.offset = @ + BUF_SIZE]))
  /\ UNCHANGED <<indexSize, accpc, filebuf>>

\* The completion events of connection c's own operations.
ConnStep(c) ==
  \/ RecvComplete(c) \/ Send400Complete(c) \/ Send404Complete(c)
  \/ SendHdrComplete(c) \/ ReadComplete(c) \/ BodySendComplete(c)
  \/ DelayComplete(c)

Next ==
  \/ AcceptComplete
  \/ AcceptSentinel
  \/ AcceptError
  \/ \E c \in Conns : RecvComplete(c)
  \/ \E c \in Conns : Send400Complete(c)
  \/ \E c \in Conns : Send404Complete(c)
  \/ \E c \in Conns : SendHdrComplete(c)
  \/ \E c \in Conns : ReadComplete(c)
  \/ \E c \in Conns : BodySendComplete(c)
  \/ \E c \in Conns : DelayComplete(c)

Spec == Init /\ [][Next]_vars

\* Every I/O operation a handler awaits completes: a completion that can be
\* delivered to a connection is delivered.
FairSpec == Init /\ [][Next]_vars /\ \A c \in Conns : WF_vars(ConnStep(c))

\* ============================================================= properties
Exited(c) == h[c].pc = "exited"
ExitedOK(c) == h[c].pc = "exited" /\ h[c].thrown = "none"
\* The responder found a regular file and went on to the 200 branch.
Serving(c) == h[c].filename # << >> /\ FileKind(h[c].filename) = "reg"
WindowLen(w) == w[2]
WindowOffset(w) == w[1]

RECURSIVE SumLens(_)
SumLens(ws) == IF ws = << >> THEN 0 ELSE WindowLen(ws[1]) + SumLens(Tail(ws))

\* The number of windows of a file of S bytes with windows of W bytes, and
\* the length of the k-th: floor(S/W) windows of W bytes, then one of S mod W
\* bytes when S mod W > 0.
ExpectedCount(S, W) == (S \div W) + (IF S % W > 0 THEN 1 ELSE 0)
ExpectedLen(S, W, k) == IF k <= S \div W THEN W ELSE S % W

\* C1: a GET for an existing regular file of size S answers with a 200 header
\* whose Content-Length is S, then floor(S/W) windows of W bytes and one final
\* window of S mod W bytes when S mod W > 0: the lengths sum to S and no
\* zero-length window is ever issued.
C1_WindowSplit ==
  \A c \in Conns :
    Serving(c) =>
      LET S == StatSize(h[c].filename)
          ws == h[c].windows
      IN /\ Len(ws) <= ExpectedCount(S, BUF_SIZE)
         /\ \A k \in 1..Len(ws) :
              WindowLen(ws[k]) = ExpectedLen(S, BUF_SIZE, k) /\ WindowLen(ws[k]) > 0
         /\ \A i \in 1..Len(h[c].sent) :
              h[c].sent[i].k = "hdr" =>
                i = 1 /\ h[c].sent[i].o = 200 /\ h[c].sent[i].n = S
         /\ ExitedOK(c) =>
              /\ Len(ws) = ExpectedCount(S, BUF_SIZE)
              /\ SumLens(ws) = S
              /\ h[c].sent # << >>
              /\ h[c].sent[1].k = "hdr" /\ h[c].sent[1].n = S

\* A transfer of a file of one full window plus one byte has completed.
C1_Witness ==
  \E c \in Conns :
    /\ ExitedOK(c) /\ Serving(c)
    /\ StatSize(h[c].filename) = BUF_SIZE + 1
    /\ Len(h[c].windows) = 2

\* A transfer of a file of exactly MaxWindows windows has completed.
C1_WitnessExact ==
  \E c \in Conns :
    /\ ExitedOK(c) /\ Serving(c)
    /\ StatSize(h[c].filename) = MaxWindows * BUF_SIZE
    /\ Len(h[c].windows) = MaxWindows

\* C2: the body the client receives is the file's bytes 0..S-1 in order: the
\* k-th window is read at offset (k-1)*W, the windows are contiguous, and what
\* is sent for a window is what was read for it, never bytes left in the
\* buffer by an earlier window.
C2_BodyInOrder ==
  \A c \in Conns :
    Serving(c) =>
      LET ws == h[c].windows
          sent == h[c].sent
          issued == SumLens(ws)
      IN /\ \A k \in 1..Len(ws) : WindowOffset(ws[k]) = (k - 1) * BUF_SIZE
         /\ Len(sent) <= 2
         /\ Len(sent) = 2 =>
              /\ sent[2].k = "data" /\ sent[2].f = h[c].filename /\ sent[2].o = 0
              /\ \/ sent[2].n = issued
                 \/ sent[2].n = issued - WindowLen(ws[Len(ws)])
         /\ (ExitedOK(c) /\ StatSize(h[c].filename) > 0) =>
              Len(sent) = 2 /\ sent[2] = FileRun(h[c].filename, 0, StatSize(h[c].filename))

\* A file larger than one window was sent completely.
C2_Witness ==
  \E c \in Conns :
    /\ ExitedOK(c) /\ Serving(c)
    /\ h[c].st_size > BUF_SIZE
    /\ h[c].sent[2] = FileRun(h[c].filename, 0, h[c].st_size)


\* The first token of a request: the bytes before its first space.
FirstToken(buf) == Substr(buf, 0, Find(buf, " ", 0))

\* C3: a received request whose first token is not exactly "GET" is answered
\* with the 400 payload only: no file is opened and no 200 or 404 is sent.
C3_NonGetIs400 ==
  \A c \in Conns :
    (h[c].got /\ FirstToken(h[c].req) # GET) =>
      /\ h[c].infd = "none"
      /\ \A i \in 1..Len(h[c].sent) : h[c].sent[i] = http_400_hdr
      /\ ExitedOK(c) => h[c].sent = << http_400_hdr >>

\* C4: a GET whose path is not an existing regular file is answered with the
\* 404 payload only: no 200 header, no read, no body send, and the responder
\* returns normally unless the 404 send itself failed.
C4_NotFoundIs404 ==
  \A c \in Conns :
    (h[c].filename # << >> /\ FileKind(h[c].filename) # "reg") =>
      /\ h[c].pc \in {"send404", "exited"}
      /\ h[c].windows = << >>
      /\ h[c].readst = "none" /\ h[c].sendst = "none"
      /\ h[c].sent \in { << >>, << http_404_hdr >> }
      /\ Exited(c) =>
           \/ h[c].thrown = "none" /\ h[c].sent = << http_404_hdr >>
           \/ h[c].thrown = "system_error" /\ h[c].sent = << >>

\* A GET for a directory was answered with the 404 payload, and so was a GET
\* for a missing file.
C4_Witness ==
  /\ \E c \in Conns :
       /\ h[c].req = ReqDir /\ ExitedOK(c)
       /\ h[c].infd = "closed" /\ h[c].sent = << http_404_hdr >>
  /\ \E c \in Conns :
       /\ h[c].req = ReqNoSpace /\ ExitedOK(c)
       /\ h[c].infd = "bad" /\ h[c].sent = << http_404_hdr >>

\* C5: the handler closes its socket exactly once on every exit: never
\* while one of its operations on the socket is outstanding, never twice, and
\* never left open once the handler is gone.
C5_SocketClosedOnce ==
  \A c \in Conns :
    /\ h[c].closes <= 1
    /\ h[c].pc \in {"exited", "escaped"} => h[c].closes = 1 /\ h[c].sock = "closed"
    /\ h[c].pc \in {"recv", "send400", "send404", "sendhdr", "pair", "lastpair", "delay"} =>
         h[c].closes = 0 /\ h[c].sock = "open"
    /\ h[c].closes > 0 => h[c].sendst \notin {"held", "inflight"}

\* Handlers have exited, and closed, after a failure in the middle of a
\* transfer and after a parser failure.
C5_Witness ==
  /\ \E c \in Conns :
       /\ Exited(c) /\ h[c].thrown = "system_error"
       /\ h[c].windows # << >> /\ h[c].closes = 1
  /\ \E c \in Conns :
       Exited(c) /\ h[c].thrown = "out_of_range" /\ h[c].closes = 1


Gone(r) == r.pc \in {"exited", "escaped"}

\* C6: a failure raised while serving one connection ends in that
\* connection's handler: the handler exits through its catch block, the
\* acceptor is still accepting, and no other handler or buffer is touched.
C6_FailureContained ==
  [][ \A c \in Conns :
        (~Gone(h[c]) /\ Gone(h'[c]) /\ h'[c].thrown # "none") =>
          /\ h'[c].pc = "exited"
          /\ accpc' = "accepting"
          /\ runningCoroutines' = runningCoroutines - 1
          /\ \A d \in Conns \ {c} : h'[d] = h[d]
          /\ filebuf' = filebuf ]_vars

\* One handler has ended with a parser failure and the other with an I/O
\* failure; the acceptor is still accepting.
C6_Witness ==
  /\ accpc = "accepting"
  /\ \E c, d \in Conns :
       /\ Exited(c) /\ h[c].thrown = "out_of_range"
       /\ Exited(d) /\ h[d].thrown = "system_error" /\ h[d].windows # << >>

\* What a connection that sent req receives when it is served to the end.
Alone(req) ==
  IF ~IsGET(req) THEN << http_400_hdr >>
  ELSE IF Len(req) < 4 THEN << >>
  ELSE LET f == Normalize(RequestFile(req))
           type == IF f = IndexName THEN "text/html" ELSE "text/plain"
       IN IF FileKind(f) # "reg" THEN << http_404_hdr >>
          ELSE << Http200Hdr(type, StatSize(f)) >>
               \o (IF StatSize(f) > 0 THEN << FileRun(f, 0, StatSize(f)) >> ELSE << >>)

\* s is what the client has of the stream t after some of its sends.
StreamPrefix(s, t) ==
  \/ s = << >>
  \/ s = t
  \/ Len(t) = 2 /\ s = << t[1] >>
  \/ /\ Len(t) = 2 /\ Len(s) = 2 /\ s[1] = t[1]
     /\ s[2].k = "data" /\ s[2].f = t[2].f /\ s[2].o = 0 /\ s[2].n <= t[2].n

Suspended(c) ==
  h[c].pc \in {"recv", "send400", "send404", "sendhdr", "pair", "lastpair", "delay"}

C7_OwnResponse ==
  \A c \in Conns :
    /\ h[c].got =>
         /\ StreamPrefix(h[c].sent, Alone(h[c].req))
         /\ ExitedOK(c) => h[c].sent = Alone(h[c].req)
    /\ (Running /\ Suspended(c)) => ENABLED ConnStep(c)

C7_NoInterference ==
  \A c, d \in Conns :
    (c # d /\ h'[d] # h[d]) =>
      /\ h'[c] = h[c]
      /\ h[c].pc \in {"pair", "lastpair", "delay"} =>
           filebuf'[BufOf(c)] = filebuf[BufOf(c)]

\* C7: with connections served concurrently and their completions
\* interleaved in any order, each connection receives what it would receive
\* alone; a step of one connection (its failure included) changes neither the
\* state nor the buffer of another, and a connection's pending completion can
\* always be delivered whatever the others are doing.
C7_Independent == [] C7_OwnResponse /\ [][C7_NoInterference]_vars

\* Two transfers of different files were in flight together; one failed in
\* the middle and the other was delivered completely.
C7_Witness ==
  \E c, d \in Conns :
    /\ h[c].req = ReqA /\ ExitedOK(c) /\ h[c].sent = Alone(ReqA)
    /\ h[d].req = ReqIndex /\ Exited(d) /\ h[d].thrown = "system_error"
    /\ Len(h[d].windows) = 2

\* C8: a connection whose request was received sends exactly one response
\* header (200, 404 or 400) before it is closed; it is closed without a
\* response only after a transport failure.
C8_AlwaysResponds ==
  \A c \in Conns :
    Exited(c) =>
      /\ h[c].sent = << >> => h[c].thrown = "system_error"
      /\ (h[c].got /\ h[c].thrown # "system_error") =>
           /\ h[c].sent # << >>
           /\ h[c].sent[1].k = "hdr" /\ h[c].sent[1].o \in {200, 404, 400}

IsPrefix(s, t) == Len(s) <= Len(t) /\ \A i \in 1..Len(s) : s[i] = t[i]

\* C9: a GET for the root path is served as a GET for /index.html: the same
\* file, the same header (status, content type, Content-Length) and the same
\* windows.
C9_RootIsIndex ==
  \A c, d \in Conns :
    (h[c].got /\ h[c].req = ReqRoot /\ h[d].got /\ h[d].req = ReqIndex) =>
      /\ h[c].filename = h[d].filename
      /\ h[c].st_size = h[d].st_size
      /\ (h[c].sent # << >> /\ h[d].sent # << >>) => h[c].sent[1] = h[d].sent[1]
      /\ IsPrefix(h[c].windows, h[d].windows) \/ IsPrefix(h[d].windows, h[c].windows)
      /\ (ExitedOK(c) /\ ExitedOK(d)) =>
           h[c].sent = h[d].sent /\ h[c].windows = h[d].windows

\* Both requests were served completely for a file of MaxWindows windows.
C9_Witness ==
  \E c, d \in Conns :
    /\ h[c].req = ReqRoot /\ ExitedOK(c)
    /\ h[d].req = ReqIndex /\ ExitedOK(d)
    /\ Len(h[c].windows) = MaxWindows
    /\ h[c].sent[1] = Http200Hdr("text/html", MaxWindows * BUF_SIZE)

\* C10: in every window pair the send is dispatched only after the read that
\* fills the buffer has completed, so what a send transmits is the file's
\* bytes of its own window, never indeterminate or earlier buffer contents.
C10_SendAfterRead ==
  \A c \in Conns :
    /\ h[c].pc \in {"pair", "lastpair"} =>
         /\ h[c].sendst \in {"inflight", "ok", "fail"} => h[c].readst = "ok"
         /\ h[c].sendst = "inflight" =>
              TakeBytes(filebuf[BufOf(c)], h[c].iov_len)
                = << FileRun(h[c].filename, h[c].offset, h[c].iov_len) >>
    /\ \A i \in 1..Len(h[c].sent) : h[c].sent[i].k # "uninit"

\* A full-window send and a final-window send are both dispatched, each
\* after its read.
C10_Witness ==
  \E c, d \in Conns :
    /\ h[c].pc = "pair" /\ h[c].readst = "ok" /\ h[c].sendst = "inflight"
    /\ h[d].pc = "lastpair" /\ h[d].readst = "ok" /\ h[d].sendst = "inflight"
    /\ Len(h[d].windows) = 2

\* An operation of the current pair has been issued and has not completed.
Outstanding(r) == r.readst = "inflight" \/ r.sendst \in {"held", "inflight"}

C11_OnePair ==
  \A c \in Conns :
    /\ Outstanding(h[c]) =>
         /\ h[c].pc \in {"pair", "lastpair"}
         /\ h[c].windows # << >>
         /\ WindowOffset(h[c].windows[Len(h[c].windows)]) = h[c].offset
    /\ h[c].pc = "delay" => h[c].readst = "ok" /\ h[c].sendst = "ok"

C11_Advance ==
  \A c \in Conns :
    /\ Len(h'[c].windows) > Len(h[c].windows) =>
         /\ Len(h'[c].windows) = Len(h[c].windows) + 1
         /\ ~Outstanding(h[c])
         /\ h[c].windows # << >> => h[c].readst = "ok" /\ h[c].sendst = "ok"
    /\ h'[c].offset # h[c].offset =>
         /\ h'[c].offset = h[c].offset + BUF_SIZE
         /\ h[c].readst = "ok" /\ h[c].sendst = "ok"
    /\ filebuf'[BufOf(c)] # filebuf[BufOf(c)] => h[c].sendst # "inflight"

\* C11: the buffer is never overwritten while a send from it is in flight:
\* a window's read is issued, and the offset advances by W, only after both
\* the read and the send of the window before it have completed, so at most
\* one read/send pair per connection is outstanding, and it is the pair of
\* the current offset.
C11_BufferReuse == [] C11_OnePair /\ [][C11_Advance]_vars

\* The read of a second window is outstanding after the first pair completed.
C11_Witness ==
  \E c \in Conns :
    /\ Len(h[c].windows) = 2 /\ h[c].offset = BUF_SIZE
    /\ h[c].readst = "inflight" /\ h[c].sendst = "held"

\* C12: the 200 header send and the 404 and 400 sends are awaited: while one
\* of them is pending the responder has issued no body read or send and has
\* not returned (nothing is closed), and on the connection a header is the
\* first thing sent, body bytes come only after a 200 header and nothing
\* follows a 404 or 400 header.
C12_HeaderFirst ==
  \A c \in Conns :
    /\ h[c].pc \in {"send400", "send404", "sendhdr"} =>
         /\ h[c].windows = << >> /\ h[c].sent = << >>
         /\ h[c].readst = "none" /\ h[c].sendst = "none"
         /\ h[c].closes = 0 /\ h[c].fdcloses = 0
    /\ h[c].windows # << >> =>
         h[c].sent # << >> /\ h[c].sent[1].k = "hdr" /\ h[c].sent[1].o = 200
    /\ \A i \in 1..Len(h[c].sent) :
         /\ h[c].sent[i].k = "hdr" <=> i = 1
         /\ i > 1 => h[c].sent[1].o = 200

\* One connection has received a header and then body bytes while the
\* header send of another is still pending.
C12_Witness ==
  \E c, d \in Conns :
    /\ Len(h[c].sent) = 2 /\ h[c].sent[1].k = "hdr" /\ h[c].sent[2].k = "data"
    /\ h[d].pc = "sendhdr"

\* The read or the send of the current pair has failed (a send held behind a
\* failed read is cancelled with it).
PairFailed(r) == r.readst = "fail" \/ r.sendst \in {"fail", "cancelled"}

C13_Failed ==
  \A c \in Conns :
    PairFailed(h[c]) =>
      /\ Exited(c) /\ h[c].thrown = "system_error"
      /\ h[c].sock = "closed" /\ h[c].closes = 1
      /\ h[c].infd = "closed" /\ h[c].fdcloses = 1
      /\ WindowOffset(h[c].windows[Len(h[c].windows)]) = h[c].offset
      /\ \/ h[c].offset = 0 /\ Len(h[c].sent) = 1
         \/ /\ h[c].offset > 0 /\ Len(h[c].sent) = 2
            /\ h[c].sent[2].o = 0 /\ h[c].sent[2].n = h[c].offset

C13_NoRetry == \A c \in Conns : PairFailed(h[c]) => h'[c] = h[c]

\* C13: when the read or the send of a pair fails, the transfer ends there:
\* the handler has caught the failure and closed file and socket, the client
\* has the windows before the failed one and nothing of it, and from then on
\* no window is read or sent for that connection (no retry, no resumption).
C13_TransferFails == [] C13_Failed /\ [][C13_NoRetry]_vars

\* One transfer ended on a failed read of its second window, another on a
\* failed send.
C13_Witness ==
  \E c, d \in Conns :
    /\ Exited(c) /\ h[c].readst = "fail" /\ h[c].sendst = "cancelled"
    /\ Len(h[c].windows) = 2
    /\ Exited(d) /\ h[d].readst = "ok" /\ h[d].sendst = "fail"

\* Where a handler is suspended inside http_send_file.
InResponder(r) == r.pc \in {"send404", "sendhdr", "pair", "lastpair", "delay"}

\* C14: a descriptor openat returned is closed exactly once, when
\* http_send_file is left, on every path (complete transfer, 404 for an
\* opened target that is not a regular file, failure in the middle); it is
\* open for as long as the responder is suspended, and the responder closes
\* nothing else: a failed open leaves no descriptor closed and the socket is
\* open throughout.
C14_FileClosedOnce ==
  \A c \in Conns :
    /\ h[c].fdcloses <= 1
    /\ h[c].infd = "none" => h[c].fdcloses = 0
    /\ h[c].infd = "open" =>
         h[c].fdcloses = 0 /\ InResponder(h[c]) /\ h[c].sock = "open"
    /\ h[c].infd = "closed" =>
         h[c].fdcloses = 1 /\ Gone(h[c]) /\ OpenAt(h[c].filename) = "open"
    /\ h[c].infd = "bad" => OpenAt(h[c].filename) = "bad"
    /\ InResponder(h[c]) =>
         h[c].infd = OpenAt(h[c].filename) /\ h[c].fdcloses = 0
    /\ Gone(h[c]) => h[c].infd # "open"

\* A directory was opened, answered with 404 and closed; a transfer failed
\* in the middle and its file was closed.
C14_Witness ==
  \E c, d \in Conns :
    /\ ExitedOK(c) /\ h[c].req = ReqDir /\ h[c].sent = << http_404_hdr >>
    /\ h[c].infd = "closed" /\ h[c].fdcloses = 1
    /\ Exited(d) /\ h[d].thrown = "system_error" /\ h[d].windows # << >>
    /\ h[d].infd = "closed" /\ h[d].fdcloses = 1

\* A transfer was completed and its file closed; a failed open was answered
\* with 404.
C14_WitnessComplete ==
  \E c, d \in Conns :
    /\ ExitedOK(c) /\ Len(h[c].windows) = MaxWindows /\ h[c].infd = "closed"
    /\ ExitedOK(d) /\ h[d].infd = "bad" /\ h[d].sent = << http_404_hdr >>

C15_AcceptPending ==
  /\ (Running /\ \E c \in Conns : h[c].pc = "free") => ENABLED AcceptComplete
  /\ \A c \in Conns : (Running /\ Suspended(c)) => ENABLED ConnStep(c)

C15_Spawn ==
  \A c \in Conns :
    (h[c].pc = "free" /\ h'[c].pc # "free") =>
      /\ h'[c].pc = "recv" /\ h'[c].sock = "open"
      /\ accpc' = "accepting"
      /\ \A d \in Conns \ {c} : h'[d] = h[d]

\* C15: a successful accept starts the handler, which runs to its first
\* suspension (the receive), and leaves the acceptor awaiting the next
\* accept with every other handler untouched; while the acceptor runs, the
\* next accept can complete and each suspended handler can be resumed
\* whatever state the other handlers are in, so a handler that stays
\* suspended holds up neither the acceptor nor the serving of a later
\* connection.
C15_FireAndForget == [] C15_AcceptPending /\ [][C15_Spawn]_vars

\* The first connection never sent a request; the second, accepted after
\* it, was served a file of MaxWindows windows to the end.
C15_Witness ==
  /\ h[1].pc = "recv"
  /\ ExitedOK(2) /\ Len(h[2].windows) = MaxWindows
  /\ accpc = "accepting"

\* C16: once accept has yielded the sentinel or an error the acceptor is
\* done: no handler is spawned and no accept completes any more; the handlers
\* in flight are not halted with it: the pending completion of each can
\* still be delivered, so that it runs on to its end.
C16_AcceptorOnly ==
  /\ accpc = "done" => ~ ENABLED AcceptComplete
  /\ \A c \in Conns : (accpc = "done" /\ Suspended(c)) => ENABLED ConnStep(c)

\* The single receive of connection c returned zero bytes.
EmptyRead(c) == h[c].got /\ h[c].req = ReqEmpty

\* C17 as stated: after an empty read the parser has formed a path and
\* handed it to the responder, whose open fails; the unsupported-request
\* branch is not taken.
C17_EmptyReadIsEmptyPath ==
  \A c \in Conns :
    EmptyRead(c) =>
      /\ h[c].filename # << >> /\ h[c].infd = "bad"
      /\ h[c].pc # "send400"
      /\ h[c].sent # << http_400_hdr >>

\* C17, amended: zero received bytes do not begin with "GET", so an empty
\* read is an unsupported request like any other: no path is formed, the
\* responder is not entered (nothing is opened, no window is issued), and the
\* 400 payload is the one thing sent unless its send fails.
C17_EmptyReadIs400 ==
  \A c \in Conns :
    EmptyRead(c) =>
      /\ h[c].filename = << >> /\ h[c].infd = "none" /\ h[c].fdcloses = 0
      /\ h[c].windows = << >>
      /\ h[c].pc \in {"send400", "exited"}
      /\ h[c].thrown \in {"none", "system_error"}
      /\ h[c].sent \in {<< >>, << http_400_hdr >>}
      /\ ExitedOK(c) => h[c].sent = << http_400_hdr >>

\* A connection whose receive returned zero bytes was answered with the 400
\* payload and closed.
C17_Witness ==
  \E c \in Conns :
    EmptyRead(c) /\ ExitedOK(c) /\ h[c].sent = << http_400_hdr >> /\ h[c].closes = 1

\* The handlers spawned and not yet exited.
InFlight == {c \in Conns : h[c].pc \notin {"free", "exited"}}

C18_Count ==
  /\ runningCoroutines = Cardinality(InFlight)
  /\ runningCoroutines >= 0
  /\ (Running /\ \E c \in Conns : h[c].pc = "free") => ENABLED AcceptComplete

C18_Step ==
  runningCoroutines' # runningCoroutines =>
    \E c \in Conns :
      /\ \A d \in Conns \ {c} : h'[d] = h[d]
      /\ \/ /\ h[c].pc = "free" /\ h'[c].pc = "recv"
            /\ runningCoroutines' = runningCoroutines + 1
         \/ /\ h[c].pc # "exited" /\ h'[c].pc = "exited"
            /\ runningCoroutines' = runningCoroutines - 1

\* C18: the counter is the number of handlers spawned and not yet exited: it
\* changes only by +1 when a handler is spawned and by -1 when one exits,
\* after a failure as well, so it is never negative and is 0 when no handler
\* is in flight; whether an accept can complete does not depend on it.
C18_Counter == [] C18_Count /\ [][C18_Step]_vars

\* One handler has exited after a failure while another is in flight.
C18_Witness ==
  \E c, d \in Conns :
    /\ Exited(c) /\ h[c].thrown # "none"
    /\ Suspended(d)
    /\ runningCoroutines = 1

\* C19: nothing is in flight on a released descriptor or buffer: once the
\* scope guard of http_send_file has run (file closed, filebuf gone) or the
\* handler has closed the socket, no read or send of the transfer is issued
\* and not completed and the handler awaits no receive or send; an
\* operation that is in flight has its file and its socket open.
C19_NoUseAfterRelease ==
  \A c \in Conns :
    /\ (h[c].fdcloses > 0 \/ h[c].closes > 0) =>
         ~ Outstanding(h[c]) /\ ~ Suspended(c)
    /\ Outstanding(h[c]) =>
         h[c].infd = "open" /\ h[c].sock = "open" /\ InResponder(h[c])
    /\ Suspended(c) => h[c].sock = "open"
    /\ h[c].infd = "closed" => h[c].sock = "closed"

\* A transfer ended on a failed read, its held send cancelled with it, and
\* another ended with both operations of its last pair completed; files and
\* sockets are closed.
C19_Witness ==
  \E c, d \in Conns :
    /\ Exited(c) /\ h[c].readst = "fail" /\ h[c].sendst = "cancelled"
    /\ h[c].infd = "closed" /\ h[c].sock = "closed"
    /\ ExitedOK(d) /\ h[d].readst = "ok" /\ h[d].sendst = "ok"
    /\ h[d].infd = "closed" /\ h[d].sock = "closed"

\* Connection c has been accepted.
Accepted(c) == h[c].pc # "free"

\* C20: when every issued I/O operation completes, the handler of every
\* accepted connection eventually exits with its socket closed, whatever the
\* acceptor does meanwhile, its termination included.
C20_EveryHandlerExits ==
  \A c \in Conns : Accepted(c) ~> (Exited(c) /\ h[c].sock = "closed")

\* What holds instead: an accepted connection's handler exits with its
\* socket closed unless the acceptor terminates first; the streaming loop
\* itself always comes to an end.
C20_ExitsWhileAccepting ==
  \A c \in Conns : Accepted(c) ~> ((Exited(c) /\ h[c].sock = "closed") \/ ~ Running)

====
